---------------------------- MODULE Spec2Model ----------------------------
(***************************************************************************)
(* eot_tools: the EOT container decoder of src/eot_tools/eot.py.           *)
(*                                                                         *)
(* StructHelper is the sequential cursor (_data, _offset, _get); EOTFile   *)
(* is the decoder (__init__, _skip_over_padding, _populate).  One action   *)
(* models one statement of _populate / __init__; pc is the position in the *)
(* constructor.                                                            *)
(*                                                                         *)
(* Representation of values:                                               *)
(*   - a byte is a number in 0..255, bytes are a sequence of them;         *)
(*   - a 16-bit value is a number;                                         *)
(*   - a Python int that may need 32 bits is a pair <<hi, lo>> with        *)
(*     lo \in 0..65535 and value hi * 65536 + lo (hi = floor(v / 65536),   *)
(*     so -1 is <<-1, 65535>>): TLC's own integers are 32-bit signed and   *)
(*     cannot hold 0xFFFFFFFF;                                             *)
(*   - a str is the sequence of its code points.                           *)
(***************************************************************************)
EXTENDS Integers, Sequences, FiniteSets, TLC

VARIABLES
    _data,      \* StructHelper._data: the buffer
    _offset,    \* StructHelper._offset: the read position
    pc,         \* position in EOTFile.__init__ / _populate
    self,       \* the attributes assigned so far (name -> value)
    local,      \* local variables of _populate / __init__ (name -> value)
    err,        \* the exception that left the constructor, or NoError
    last,       \* the last call of _get: what was asked and what came back
    input       \* how the buffer was made (read by no action)

vars == <<_data, _offset, pc, self, local, err, last, input>>

------------------------------------------------------------------------------
(* Python ints as pairs <<hi, lo>>.                                         *)

W16 == 256 * 256

Int32(hi, lo) == <<hi, lo>>

\* a small non-negative number as a pair
FromNat(n) == <<n \div W16, n % W16>>

IntEq(a, b) == a[1] = b[1] /\ a[2] = b[2]

IntLt(a, b) == a[1] < b[1] \/ (a[1] = b[1] /\ a[2] < b[2])

IntGt(a, b) == IntLt(b, a)

RECURSIVE And16(_, _, _)
\* a & b of two 16-bit values, bit by bit (n bits left)
And16(a, b, n) ==
    IF n = 0 THEN 0
    ELSE ((a % 2) * (b % 2)) + 2 * And16(a \div 2, b \div 2, n - 1)

\* a & b of two non-negative 32-bit values
IntAnd(a, b) == <<And16(a[1], b[1], 16), And16(a[2], b[2], 16)>>

------------------------------------------------------------------------------
(* Constants of the module.                                                *)

VERSION_0x00010000 == Int32(1, 0)
VERSION_0x00020001 == Int32(2, 1)
VERSION_0x00020002 == Int32(2, 2)

TT_COMPRESSED == Int32(0, 4)
XOR_ENCRYPT_DATA == Int32(4096, 0)

\* the two bytes of the magic number the other way round
MAGIC_NUMBER_swapped == 76 * 256 + 80

MAGIC_NUMBER == 20556      \* 0x504C

\* a range test in place of the membership test
is_valid_range(value) ==
    /\ ~IntLt(value, VERSION_0x00010000)
    /\ ~IntGt(value, VERSION_0x00020002)

\* Version.is_valid
is_valid(value) ==
    \E v \in {VERSION_0x00010000, VERSION_0x00020001, VERSION_0x00020002} :
        IntEq(value, v)

------------------------------------------------------------------------------
(* struct.unpack_from and the cursor.                                      *)

\* struct.calcsize of the three formats used: "<L", "<H", "<ns"
calcsize(fmt, n) ==
    CASE fmt = "<L" -> FromNat(4)
      [] fmt = "<H" -> FromNat(2)
      [] fmt = "<s" -> n

Slice(buf, off, w) == SubSeq(buf, off + 1, off + w)

\* "<l" in place of "<L": the 32-bit value read as signed
unpack_signed(fmt, b) ==
    CASE fmt = "<L" ->
             Int32(b[3] + 256 * b[4] - (IF b[4] >= 128 THEN 65536 ELSE 0),
                   b[1] + 256 * b[2])
      [] fmt = "<H" -> b[1] + 256 * b[2]
      [] fmt = "<s" -> b

\* the value struct decodes from w bytes b, little-endian, unsigned
unpack(fmt, b) ==
    CASE fmt = "<L" -> Int32(b[3] + 256 * b[4], b[1] + 256 * b[2])
      [] fmt = "<H" -> b[1] + 256 * b[2]
      [] fmt = "<s" -> b

\* struct.unpack_from(fmt, buf, off): struct.error unless the buffer holds
\* calcsize bytes from off on.  n is the count of "<ns", a pair; a negative
\* count is no format and struct.error as well.
unpack_from(fmt, n, buf, off) ==
    LET size == calcsize(fmt, n)
        room == FromNat(Len(buf) - off)
    IN  IF size[1] < 0 \/ IntLt(room, size)
        THEN [ok |-> FALSE, val |-> <<>>]
        ELSE [ok |-> TRUE, val |-> unpack(fmt, Slice(buf, off, size[2]))]

\* the offset moved before unpack_from is called: it moves on a failure too
_get_moves_first(fmt, n, move) ==
    LET result == unpack_from(fmt, n, _data, _offset)
    IN  [ok |-> result.ok, val |-> result.val, offset |-> _offset + move[2]]

\* StructHelper._get: the result of unpack_from and the offset afterwards
\* (the offset moves only when unpack_from has returned).
_get(fmt, n, move) ==
    LET result == unpack_from(fmt, n, _data, _offset)
    IN  [ok |-> result.ok, val |-> result.val,
         offset |-> IF result.ok THEN _offset + move[2] ELSE _offset]

_get_unsigned_long == _get("<L", FromNat(4), FromNat(4))

_get_unsigned_short == _get("<H", FromNat(2), FromNat(2))

\* a slice self._data[offset:offset + length] in place of struct: what is
\* left of the buffer when it is shorter
_get_bytes_slice(length) ==
    LET rest == Len(_data) - _offset
        n == IF length[1] > 0 \/ length[2] > rest
             THEN (IF rest > 0 THEN rest ELSE 0) ELSE length[2]
    IN  [ok |-> TRUE, val |-> Slice(_data, _offset, n), offset |-> _offset + n]

_get_bytes(length) == _get("<s", length, length)

------------------------------------------------------------------------------
(* str: bytes.decode("utf-16-le") and str.split.                           *)

IsHigh(u) == u >= 55296 /\ u <= 56319      \* D800..DBFF
IsLow(u)  == u >= 56320 /\ u <= 57343      \* DC00..DFFF

Unit(b, k) == b[2 * k - 1] + 256 * b[2 * k]

RECURSIVE DecodeUnits(_, _, _)
\* the code points of code units k.. of b (n units), or <<-1>> on an
\* unpaired surrogate
DecodeUnits(b, k, n) ==
    IF k > n THEN <<>>
    ELSE LET u == Unit(b, k) IN
         IF IsLow(u) THEN <<-1>>
         ELSE IF IsHigh(u)
              THEN IF k + 1 <= n /\ IsLow(Unit(b, k + 1))
                   THEN LET rest == DecodeUnits(b, k + 2, n)
                            cp == 65536 + (u - 55296) * 1024
                                        + (Unit(b, k + 1) - 56320)
                        IN IF rest = <<-1>> THEN rest ELSE <<cp>> \o rest
                   ELSE <<-1>>
              ELSE LET rest == DecodeUnits(b, k + 1, n)
                   IN IF rest = <<-1>> THEN rest ELSE <<u>> \o rest

\* StructHelper._decode_utf16: UnicodeDecodeError on an odd number of bytes
\* or an unpaired surrogate
_decode_utf16(data) ==
    IF Len(data) % 2 = 1 THEN [ok |-> FALSE, val |-> <<>>]
    ELSE LET s == DecodeUnits(data, 1, Len(data) \div 2)
         IN IF s = <<-1>> THEN [ok |-> FALSE, val |-> <<>>]
            ELSE [ok |-> TRUE, val |-> s]

RECURSIVE split_words(_, _)
\* the separator repeated or at an end makes no empty entry (as str.split()
\* does for white space)
split_words(s, sep) ==
    IF \A k \in 1..Len(s) : s[k] # sep THEN (IF Len(s) = 0 THEN <<>> ELSE <<s>>)
    ELSE LET k == CHOOSE j \in 1..Len(s) :
                      s[j] = sep /\ \A m \in 1..(j - 1) : s[m] # sep
         IN (IF k = 1 THEN <<>> ELSE <<SubSeq(s, 1, k - 1)>>)
            \o split_words(SubSeq(s, k + 1, Len(s)), sep)

RECURSIVE split(_, _)
\* str.split(sep) for a one-character separator
split(s, sep) ==
    IF \A k \in 1..Len(s) : s[k] # sep THEN <<s>>
    ELSE LET k == CHOOSE j \in 1..Len(s) :
                      s[j] = sep /\ \A m \in 1..(j - 1) : s[m] # sep
         IN <<SubSeq(s, 1, k - 1)>> \o split(SubSeq(s, k + 1, Len(s)), sep)

------------------------------------------------------------------------------
(* The constructor, statement by statement.                                *)

NoError == [type |-> "none", msg |-> "", arg |-> 0]

Set(f, name, val) == (name :> val) @@ f

\* the cursor's part of a statement that calls _get once
Cursor(fmt, n, r) ==
    /\ _offset' = r.offset
    /\ last' = [n |-> last.n + 1, fmt |-> fmt, size |-> n, before |-> _offset,
                ok |-> r.ok, val |-> r.val]
    /\ UNCHANGED <<_data, input>>

\* an exception leaves the constructor: no object is returned
Raise(type, msg, arg) ==
    /\ pc' = "raised"
    /\ err' = [type |-> type, msg |-> msg, arg |-> arg]
    /\ UNCHANGED <<self, local>>

\* struct.error out of unpack_from
StructError == Raise("struct.error", "unpack_from requires a buffer", 0)

Assign(name, val, next) ==
    /\ self' = Set(self, name, val)
    /\ pc' = next
    /\ UNCHANGED <<local, err>>

AssignLocal(name, val, next) ==
    /\ local' = Set(local, name, val)
    /\ pc' = next
    /\ UNCHANGED <<self, err>>

\* self.<name> = self._get_unsigned_long()
ULongAttr(name, next) ==
    /\ pc = name
    /\ LET r == _get_unsigned_long IN
       /\ Cursor("<L", FromNat(4), r)
       /\ IF r.ok THEN Assign(name, r.val, next) ELSE StructError

\* font_data_size = self._get_unsigned_long()
ReadFontDataSize ==
    /\ pc = "font_data_size"
    /\ LET r == _get_unsigned_long IN
       /\ Cursor("<L", FromNat(4), r)
       /\ IF r.ok THEN AssignLocal("font_data_size", r.val, "version")
          ELSE StructError

\* self.version = ...; if not Version.is_valid(self.version): raise
ReadVersion ==
    /\ pc = "version"
    /\ LET r == _get_unsigned_long IN
       /\ Cursor("<L", FromNat(4), r)
       /\ IF ~r.ok THEN StructError
          ELSE IF ~is_valid(r.val)
               THEN /\ pc' = "raised"
                    /\ err' = [type |-> "ValueError", msg |-> "Unknown version",
                               arg |-> 0]
                    /\ self' = Set(self, "version", r.val)
                    /\ UNCHANGED local
               ELSE Assign("version", r.val, "flags")

\* self.font_panose = self._get_bytes(10)
ReadFontPanose ==
    /\ pc = "font_panose"
    /\ LET r == _get_bytes(FromNat(10)) IN
       /\ Cursor("<s", FromNat(10), r)
       /\ IF r.ok THEN Assign("font_panose", r.val, "charset") ELSE StructError

\* self.<name> = self._get_bytes(1)[0]  ([0] of no byte is an IndexError)
ByteAttr(name, next) ==
    /\ pc = name
    /\ LET r == _get_bytes(FromNat(1)) IN
       /\ Cursor("<s", FromNat(1), r)
       /\ IF ~r.ok THEN StructError
          ELSE IF Len(r.val) = 0
               THEN Raise("IndexError", "index out of range", 0)
               ELSE Assign(name, r.val[1], next)

\* self.fs_type = self._get_unsigned_short()
ReadFsType ==
    /\ pc = "fs_type"
    /\ LET r == _get_unsigned_short IN
       /\ Cursor("<H", FromNat(2), r)
       /\ IF r.ok THEN Assign("fs_type", r.val, "magic_number") ELSE StructError

\* magic_number = ...; if magic_number != MAGIC_NUMBER: raise
ReadMagicNumber ==
    /\ pc = "magic_number"
    /\ LET r == _get_unsigned_short IN
       /\ Cursor("<H", FromNat(2), r)
       /\ IF ~r.ok THEN StructError
          ELSE IF r.val # MAGIC_NUMBER
               THEN /\ pc' = "raised"
                    /\ err' = [type |-> "ValueError",
                               msg |-> "Unexpected magic number", arg |-> 0]
                    /\ local' = Set(local, "magic_number", r.val)
                    /\ UNCHANGED self
               ELSE AssignLocal("magic_number", r.val, "unicode_range1")

\* the loop counting from 0: the index reported is one less
ReadReserved_from0 ==
    /\ pc = "reserved"
    /\ LET r == _get_unsigned_long
           i == local["i"]
       IN
       /\ Cursor("<L", FromNat(4), r)
       /\ IF ~r.ok THEN StructError
          ELSE IF ~IntEq(r.val, FromNat(0))
               THEN Raise("ValueError", "Unexpected reserved value", i - 1)
               ELSE AssignLocal("i", i + 1,
                                IF i + 1 < 5 THEN "reserved" ELSE "padding1")

\* for i in range(1, 5): reserved = ...; if reserved != 0: raise
ReadReserved ==
    /\ pc = "reserved"
    /\ LET r == _get_unsigned_long
           i == local["i"]
       IN
       /\ Cursor("<L", FromNat(4), r)
       /\ IF ~r.ok THEN StructError
          ELSE IF ~IntEq(r.val, FromNat(0))
               THEN Raise("ValueError", "Unexpected reserved value", i)
               ELSE AssignLocal("i", i + 1,
                                IF i + 1 < 5 THEN "reserved" ELSE "padding1")

\* the last of the seven range statements also starts the loop (i = 1)
ReadCheckSumAdjustment ==
    /\ pc = "check_sum_adjustment"
    /\ LET r == _get_unsigned_long IN
       /\ Cursor("<L", FromNat(4), r)
       /\ IF ~r.ok THEN StructError
          ELSE /\ self' = Set(self, "check_sum_adjustment", r.val)
               /\ local' = Set(local, "i", 1)
               /\ pc' = "reserved"
               /\ UNCHANGED err

\* the marker read and not tested
_skip_over_padding_untested(i, here, next) ==
    /\ pc = here
    /\ LET r == _get_unsigned_short IN
       /\ Cursor("<H", FromNat(2), r)
       /\ IF ~r.ok THEN StructError
          ELSE pc' = next /\ UNCHANGED <<self, local, err>>

\* EOTFile._skip_over_padding(i)
_skip_over_padding(i, here, next) ==
    /\ pc = here
    /\ LET r == _get_unsigned_short IN
       /\ Cursor("<H", FromNat(2), r)
       /\ IF ~r.ok THEN StructError
          ELSE IF r.val # 0
               THEN Raise("ValueError", "Unexpected padding", i)
               ELSE pc' = next /\ UNCHANGED <<self, local, err>>

\* <name>_size = self._get_unsigned_short()
UShortLocal(name, next) ==
    /\ pc = name
    /\ LET r == _get_unsigned_short IN
       /\ Cursor("<H", FromNat(2), r)
       /\ IF r.ok THEN AssignLocal(name, r.val, next) ELSE StructError

\* where _populate goes after the defaults (the two `if`s on the version)
AfterNames(version) ==
    IF IntGt(version, VERSION_0x00010000) THEN "padding5"
    ELSE IF IntGt(version, VERSION_0x00020001) THEN "root_string_checksum"
    ELSE "font_data"

\* >= in place of > in the test of the last section
AfterRootString_ge(version) ==
    IF ~IntLt(version, VERSION_0x00020001) THEN "root_string_checksum"
    ELSE "font_data"

\* where _populate goes after the root string (the second `if`)
AfterRootString(version) ==
    IF IntGt(version, VERSION_0x00020001) THEN "root_string_checksum"
    ELSE "font_data"

\* self.<name> = self._decode_utf16(self._get_bytes(<name>_size))
NameAttr(name, next) ==
    /\ pc = name
    /\ LET size == FromNat(local[name \o "_size"])
           r == _get_bytes(size)
       IN
       /\ Cursor("<s", size, r)
       /\ IF ~r.ok THEN StructError
          ELSE LET s == _decode_utf16(r.val) IN
               IF ~s.ok
               THEN Raise("UnicodeDecodeError", "utf-16-le", 0)
               ELSE Assign(name, s.val, next)

\* the six assignments of the version-gated attributes' defaults
SetDefaults ==
    /\ pc = "defaults"
    /\ self' = ("root_string" :> <<>>) @@ ("root_string_checksum" :> Int32(-1, 65535))
                @@ ("eudc_code_page" :> Int32(-1, 65535)) @@ ("signature" :> <<>>)
                @@ ("eudc_flags" :> FromNat(0)) @@ ("eudc_font_data" :> <<>>)
                @@ self
    /\ pc' = AfterNames(self["version"])
    /\ UNCHANGED <<_data, _offset, local, err, last, input>>

\* self.root_string = self._decode_utf16(self._get_bytes(root_string_size)).split("\x00")
ReadRootString ==
    /\ pc = "root_string"
    /\ LET size == FromNat(local["root_string_size"])
           r == _get_bytes(size)
       IN
       /\ Cursor("<s", size, r)
       /\ IF ~r.ok THEN StructError
          ELSE LET s == _decode_utf16(r.val) IN
               IF ~s.ok
               THEN Raise("UnicodeDecodeError", "utf-16-le", 0)
               ELSE Assign("root_string", split(s.val, 0),
                           AfterRootString(self["version"]))

\* signature_size = ...; if signature_size != 0x0000: raise
ReadSignatureSize ==
    /\ pc = "signature_size"
    /\ LET r == _get_unsigned_short IN
       /\ Cursor("<H", FromNat(2), r)
       /\ IF ~r.ok THEN StructError
          ELSE IF r.val # 0
               THEN /\ pc' = "raised"
                    /\ err' = [type |-> "ValueError",
                               msg |-> "Unexpected signature size", arg |-> 0]
                    /\ local' = Set(local, "signature_size", r.val)
                    /\ UNCHANGED self
               ELSE AssignLocal("signature_size", r.val, "signature")

\* eudc_font_size = self._get_unsigned_long()
ReadEudcFontSize ==
    /\ pc = "eudc_font_size"
    /\ LET r == _get_unsigned_long IN
       /\ Cursor("<L", FromNat(4), r)
       /\ IF r.ok THEN AssignLocal("eudc_font_size", r.val, "eudc_font_data")
          ELSE StructError

\* self.<name> = self._get_bytes(<size>), the size a local of 32 bits
BytesAttr(name, size, next) ==
    /\ pc = name
    /\ LET r == _get_bytes(local[size]) IN
       /\ Cursor("<s", local[size], r)
       /\ IF r.ok THEN Assign(name, r.val, next) ELSE StructError

\* flag & bit == bit
HasFlag(flag, bit) == IntEq(IntAnd(flag, bit), bit)

\* the guard run on the top-level flags alone
FlagWords_top == <<"flags">>

\* [self.flags, self.eudc_flags]: the attributes the guard of __init__ tests
FlagWords == <<"flags", "eudc_flags">>

\* for flag in [self.flags, self.eudc_flags]: one iteration (the k-th);
\* after the last the constructor returns the object
CheckFlag ==
    /\ pc = "flag_check"
    /\ LET k == local["k"]
           flag == self[FlagWords[k]]
       IN
       IF HasFlag(flag, TT_COMPRESSED)
       THEN Raise("NotImplementedError", "MicroType Express algorithm not implemented", 0)
       ELSE IF HasFlag(flag, XOR_ENCRYPT_DATA)
            THEN Raise("NotImplementedError", "XOR encryption not implemented", 0)
            ELSE AssignLocal("k", k + 1,
                             IF k + 1 <= Len(FlagWords) THEN "flag_check"
                             ELSE "returned")
    /\ UNCHANGED <<_data, _offset, last, input>>

\* self.font_data = self._get_bytes(font_data_size); _populate returns and
\* the loop over the two flags words starts
ReadFontData ==
    /\ pc = "font_data"
    /\ LET r == _get_bytes(local["font_data_size"]) IN
       /\ Cursor("<s", local["font_data_size"], r)
       /\ IF ~r.ok THEN StructError
          ELSE /\ self' = Set(self, "font_data", r.val)
               /\ local' = Set(local, "k", 1)
               /\ pc' = "flag_check"
               /\ UNCHANGED err

\* EOTFile._populate and the guard of __init__ after it
Next ==
    \/ ULongAttr("eot_size", "font_data_size")
    \/ ReadFontDataSize
    \/ ReadVersion
    \/ ULongAttr("flags", "font_panose")
    \/ ReadFontPanose
    \/ ByteAttr("charset", "italic")
    \/ ByteAttr("italic", "weight")
    \/ ULongAttr("weight", "fs_type")
    \/ ReadFsType
    \/ ReadMagicNumber
    \/ ULongAttr("unicode_range1", "unicode_range2")
    \/ ULongAttr("unicode_range2", "unicode_range3")
    \/ ULongAttr("unicode_range3", "unicode_range4")
    \/ ULongAttr("unicode_range4", "code_page_range1")
    \/ ULongAttr("code_page_range1", "code_page_range2")
    \/ ULongAttr("code_page_range2", "check_sum_adjustment")
    \/ ReadCheckSumAdjustment
    \/ ReadReserved
    \/ _skip_over_padding(1, "padding1", "family_name_size")
    \/ UShortLocal("family_name_size", "family_name")
    \/ NameAttr("family_name", "padding2")
    \/ _skip_over_padding(2, "padding2", "style_name_size")
    \/ UShortLocal("style_name_size", "style_name")
    \/ NameAttr("style_name", "padding3")
    \/ _skip_over_padding(3, "padding3", "version_name_size")
    \/ UShortLocal("version_name_size", "version_name")
    \/ NameAttr("version_name", "padding4")
    \/ _skip_over_padding(4, "padding4", "full_name_size")
    \/ UShortLocal("full_name_size", "full_name")
    \/ NameAttr("full_name", "defaults")
    \/ SetDefaults
    \/ _skip_over_padding(5, "padding5", "root_string_size")
    \/ UShortLocal("root_string_size", "root_string")
    \/ ReadRootString
    \/ ULongAttr("root_string_checksum", "eudc_code_page")
    \/ ULongAttr("eudc_code_page", "padding6")
    \/ _skip_over_padding(6, "padding6", "signature_size")
    \/ ReadSignatureSize
    \/ NameAttr("signature", "eudc_flags")
    \/ ULongAttr("eudc_flags", "eudc_font_size")
    \/ ReadEudcFontSize
    \/ BytesAttr("eudc_font_data", "eudc_font_size", "font_data")
    \/ ReadFontData
    \/ CheckFlag

------------------------------------------------------------------------------
(* The inputs: byte buffers handed to EOTFile(data).  A container is laid  *)
(* out field by field as the decoder reads it (the values of the sample    *)
(* the tests decode where they give them), for each of the three versions, *)
(* with a choice of root strings, EUDC data, payload and trailing bytes;   *)
(* up to two fields are then set to other values, or the buffer is cut.    *)
(* LE16, LE32, Name and Container follow the wire format; the rest of the  *)
(* section enumerates values.                                              *)

MaxPayload == 1     \* bytes of font data in a container
MaxTrailing == 1    \* bytes after the font data

LE16(n) == <<n % 256, n \div 256>>

LE32(v) == LE16(v[2]) \o LE16(v[1])

RECURSIVE Concat(_)
Concat(ss) == IF Len(ss) = 0 THEN <<>> ELSE Head(ss) \o Concat(Tail(ss))

Bytes(n, first) == [k \in 1..n |-> first + k]

Zero4 == <<FromNat(0), FromNat(0), FromNat(0), FromNat(0)>>

Zero6 == <<0, 0, 0, 0, 0, 0>>

RootStrings ==
    { <<>>,
      <<97, 0, 0, 0, 98, 0, 0, 0>>,     \* "a\0b\0"
      <<97, 0, 0, 98>>,                 \* "a\u6200": two zero bytes, no U+0000
      <<0, 0, 61, 216, 0, 222>> }       \* "\0\U0001F600"

Layouts == {VERSION_0x00010000, VERSION_0x00020001, VERSION_0x00020002}

Sample(layout, root, eudc, payload, trailing) ==
    [ layout |-> layout,
      eot_size |-> Int32(0, 44636),
      font_data_size |-> FromNat(Len(payload)),
      version |-> layout,
      flags |-> FromNat(0),
      font_panose |-> <<2, 0, 5, 9, 0, 0, 0, 0, 0, 0>>,
      charset |-> 1,
      italic |-> 0,
      weight |-> FromNat(400),
      fs_type |-> 0,
      magic_number |-> 20556,
      unicode_range |-> <<FromNat(3), FromNat(0), FromNat(0), FromNat(0)>>,
      code_page_range |-> <<FromNat(1), FromNat(0)>>,
      check_sum_adjustment |-> Int32(49382, 16382),
      reserved |-> Zero4,
      padding |-> Zero6,
      family_name |-> <<77, 0, 97, 0>>,
      style_name |-> <<82, 0>>,
      version_name |-> <<>>,
      full_name |-> <<77, 0>>,
      root_string |-> root,
      root_string_checksum |-> Int32(65535, 65535),
      eudc_code_page |-> Int32(32768, 1252),
      signature_size |-> 0,
      eudc_flags |-> FromNat(0),
      eudc_font_size |-> FromNat(Len(eudc)),
      eudc_font_data |-> eudc,
      font_data |-> payload,
      trailing |-> trailing ]

Name(p, i, bytes) == LE16(p.padding[i]) \o LE16(Len(bytes)) \o bytes

\* the bytes of container p
Container(p) ==
    Concat(<<
      LE32(p.eot_size), LE32(p.font_data_size), LE32(p.version), LE32(p.flags),
      p.font_panose, <<p.charset>>, <<p.italic>>, LE32(p.weight),
      LE16(p.fs_type), LE16(p.magic_number),
      Concat([k \in 1..4 |-> LE32(p.unicode_range[k])]),
      Concat([k \in 1..2 |-> LE32(p.code_page_range[k])]),
      LE32(p.check_sum_adjustment),
      Concat([k \in 1..4 |-> LE32(p.reserved[k])]),
      Name(p, 1, p.family_name), Name(p, 2, p.style_name),
      Name(p, 3, p.version_name), Name(p, 4, p.full_name),
      IF IntGt(p.layout, VERSION_0x00010000)
      THEN Name(p, 5, p.root_string) ELSE <<>>,
      IF IntGt(p.layout, VERSION_0x00020001)
      THEN Concat(<<LE32(p.root_string_checksum), LE32(p.eudc_code_page),
                    LE16(p.padding[6]), LE16(p.signature_size),
                    LE32(p.eudc_flags), LE32(p.eudc_font_size),
                    p.eudc_font_data>>)
      ELSE <<>>,
      p.font_data, p.trailing >>)

One32(i) == [Zero4 EXCEPT ![i] = FromNat(1)]

One16(i) == [Zero6 EXCEPT ![i] = 1]

\* the fields set to another value, one after the other
Deviations ==
    <<[f |-> "none", v |-> 0]>>
    \o [k \in 1..6 |->
          [f |-> "version",
           v |-> <<VERSION_0x00010000, VERSION_0x00020001, VERSION_0x00020002,
                   Int32(2, 0), Int32(2, 3), Int32(0, 0)>>[k]]]
    \o <<[f |-> "magic_number", v |-> 19536]>>
    \o [i \in 1..4 |-> [f |-> "reserved", v |-> One32(i)]]
    \o <<[f |-> "reserved", v |-> [One32(2) EXCEPT ![3] = Int32(65535, 0)]]>>
    \o [i \in 1..6 |-> [f |-> "padding", v |-> One16(i)]]
    \o [k \in 1..3 |->
          [f |-> "family_name", v |-> <<<<77>>, <<0, 216>>, <<0, 220, 0, 216>>>>[k]]]
    \o <<[f |-> "root_string", v |-> <<97, 0, 0>>]>>
    \o <<[f |-> "signature_size", v |-> 2]>>
    \o [k \in 1..4 |->
          [f |-> "flags",
           v |-> <<TT_COMPRESSED, XOR_ENCRYPT_DATA, Int32(4096, 4), Int32(0, 161)>>[k]]]
    \o [k \in 1..3 |->
          [f |-> "eudc_flags",
           v |-> <<TT_COMPRESSED, XOR_ENCRYPT_DATA, Int32(4096, 4)>>[k]]]
    \o <<[f |-> "eot_size", v |-> FromNat(0)]>>
    \o [k \in 1..2 |->
          [f |-> "font_data_size",
           v |-> <<FromNat(MaxPayload + 1), Int32(65535, 65535)>>[k]]]
    \o <<[f |-> "eudc_font_size", v |-> Int32(32768, 0)]>>

Deviate(p, d) ==
    IF d.f = "none" THEN p ELSE [p EXCEPT ![d.f] = d.v]

Samples ==
    { Sample(VERSION_0x00010000, <<>>, <<>>, Bytes(n, 16), Bytes(t, 200)) :
        n \in 0..MaxPayload, t \in 0..MaxTrailing }
    \cup
    { Sample(VERSION_0x00020001, root, <<>>, Bytes(n, 16), Bytes(t, 200)) :
        root \in RootStrings, n \in 0..MaxPayload, t \in 0..MaxTrailing }
    \cup
    { Sample(VERSION_0x00020002, root, Bytes(n, 32), Bytes(n, 16), Bytes(t, 200)) :
        root \in RootStrings, n \in 0..MaxPayload, t \in 0..MaxTrailing }

Data(in) ==
    IF in.cut = -1 THEN Container(in.p) ELSE SubSeq(Container(in.p), 1, in.cut)

\* EOTFile(data) with data: bytes; super().__init__() and self._data = data.
\* The data: a sample with up to two fields set to other values, whole
\* (cut = -1), or a sample cut to its first cut bytes.
Init ==
    /\ \E q \in Samples :
          \/ \E i \in DOMAIN Deviations : \E j \in i..Len(Deviations) :
                input = [p |-> Deviate(Deviate(q, Deviations[i]), Deviations[j]),
                         cut |-> -1]
          \/ \E cut \in 0..(Len(Container(q)) - 1) :
                input = [p |-> q, cut |-> cut]
    /\ _data = Data(input)
    /\ _offset = 0
    /\ pc = "eot_size"
    /\ self = <<>>
    /\ local = <<>>
    /\ err = NoError
    /\ last = [n |-> 0, fmt |-> "none", size |-> FromNat(0), before |-> 0,
               ok |-> TRUE, val |-> <<>>]

Spec == Init /\ [][Next]_vars

------------------------------------------------------------------------------
(* What the claims are stated with: the outcome of the constructor in the  *)
(* words of the specification, and the wire format read off the buffer.    *)

Done == pc \in {"returned", "raised"}

Returned == pc = "returned"

TruncatedInput == pc = "raised" /\ err.type = "struct.error"

UnknownVersion ==
    pc = "raised" /\ err.type = "ValueError" /\ err.msg = "Unknown version"

BadMagic ==
    pc = "raised" /\ err.type = "ValueError" /\ err.msg = "Unexpected magic number"

NonZeroReserved(i) ==
    /\ pc = "raised" /\ err.type = "ValueError"
    /\ err.msg = "Unexpected reserved value" /\ err.arg = i

BadPadding(i) ==
    /\ pc = "raised" /\ err.type = "ValueError"
    /\ err.msg = "Unexpected padding" /\ err.arg = i

InvalidText == pc = "raised" /\ err.type = "UnicodeDecodeError"

UnexpectedSignature ==
    pc = "raised" /\ err.type = "ValueError" /\ err.msg = "Unexpected signature size"

UnsupportedCompression ==
    /\ pc = "raised" /\ err.type = "NotImplementedError"
    /\ err.msg = "MicroType Express algorithm not implemented"

UnsupportedEncryption ==
    /\ pc = "raised" /\ err.type = "NotImplementedError"
    /\ err.msg = "XOR encryption not implemented"

\* the attributes of a populated EOTFile
Attributes ==
    {"eot_size", "version", "flags", "font_panose", "charset", "italic",
     "weight", "fs_type", "unicode_range1", "unicode_range2", "unicode_range3",
     "unicode_range4", "code_page_range1", "code_page_range2",
     "check_sum_adjustment", "family_name", "style_name", "version_name",
     "full_name", "root_string", "root_string_checksum", "eudc_code_page",
     "signature", "eudc_flags", "eudc_font_data", "font_data"}

\* little-endian fields of buffer d at byte offset off (0-based)
U16At(d, off) == d[off + 1] + 256 * d[off + 2]

U32At(d, off) == <<U16At(d, off + 2), U16At(d, off)>>

Known(v) == v \in {<<1, 0>>, <<2, 1>>, <<2, 2>>}

\* the UTF-16LE bytes of a str
Utf16(s) ==
    Concat([k \in 1..Len(s) |->
              IF s[k] < 65536 THEN LE16(s[k])
              ELSE LE16(55296 + ((s[k] - 65536) \div 1024))
                   \o LE16(56320 + ((s[k] - 65536) % 1024))])

RECURSIVE Join(_, _)
\* sep.join(ss)
Join(ss, sep) ==
    IF Len(ss) = 0 THEN <<>>
    ELSE IF Len(ss) = 1 THEN ss[1]
    ELSE ss[1] \o <<sep>> \o Join(Tail(ss), sep)

\* the bytes of container p up to the end of its font data
Consumed(p) == Len(Container(p)) - Len(p.trailing)

\* every attribute assigned so far holds the whole field of container p
WholeFields(p) ==
    /\ "font_panose" \in DOMAIN self => self["font_panose"] = p.font_panose
    /\ \A f \in {"family_name", "style_name", "version_name", "full_name"} :
          f \in DOMAIN self => Utf16(self[f]) = p[f]
    /\ ("root_string" \in DOMAIN self /\ self["root_string"] # <<>>)
          => Utf16(Join(self["root_string"], 0)) = p.root_string
    /\ ("eudc_font_data" \in DOMAIN self /\ self["eudc_font_data"] # <<>>)
          => self["eudc_font_data"] = p.eudc_font_data
    /\ "font_data" \in DOMAIN self => self["font_data"] = p.font_data

------------------------------------------------------------------------------
(* The claims.                                                             *)

\* C1: a sample container decodes, consuming its bytes up to the end of the
\* font data; cut anywhere before that end, the decode fails with
\* TruncatedInput (struct.error), and no attribute assigned before the
\* failure is shorter than its field.
C1_TruncationFails ==
    /\ (Done /\ input.cut = -1 /\ input.p \in Samples)
          => (Returned /\ _offset = Consumed(input.p))
    /\ (input.cut >= 0 /\ input.cut < Consumed(input.p))
          => /\ ~Returned
             /\ WholeFields(input.p)
             /\ Done => TruncatedInput

\* cut in the middle of the family name: the size (4) was read, the name not
C1_Witness ==
    /\ Done /\ input.cut = 86 /\ TruncatedInput
    /\ local["family_name_size"] = 4 /\ "family_name" \notin DOMAIN self
    /\ _offset = 84

\* C2 as claimed: a magic number other than 0x504C yields BadMagic whatever
\* the other fields hold, the version included.
C2_AsClaimed ==
    (Done /\ Len(_data) >= 36 /\ U16At(_data, 34) # 20556) => BadMagic

\* C2 as amended: a magic number other than 0x504C yields BadMagic whenever
\* the version field, which is checked first, is one of the three known
\* constants, whatever the other fields hold; with another version the
\* decode fails with UnknownVersion, whatever the magic number.
C2_BadMagicAfterVersion ==
    /\ (Done /\ Len(_data) >= 36 /\ U16At(_data, 34) # 20556
             /\ Known(U32At(_data, 8))) => BadMagic
    /\ (Done /\ Len(_data) >= 36 /\ ~Known(U32At(_data, 8))) => UnknownVersion
    /\ BadMagic => (Len(_data) >= 36 /\ U16At(_data, 34) # 20556)

\* a wrong magic number in a container whose flags ask for compression
C2_Witness ==
    /\ BadMagic /\ U16At(_data, 34) = 19536
    /\ U32At(_data, 12) = <<0, 4>> /\ _offset = 36

\* bit 0x00000004 and bit 0x10000000 of a 32-bit word
TTBit(w) == (w[2] \div 4) % 2 = 1

XORBit(w) == (w[1] \div 4096) % 2 = 1

\* the flags words container p carries
Words(p) ==
    IF p.layout = <<2, 2>> THEN {p.flags, p.eudc_flags} ELSE {p.flags}

\* p is a whole sample but for its two flags words
ValidButFlags ==
    /\ input.cut = -1
    /\ [input.p EXCEPT !.flags = FromNat(0), !.eudc_flags = FromNat(0)] \in Samples

\* C3: on a container valid but for its flags words, the TrueType-compressed
\* bit in either word (the XOR bit in neither) gives UnsupportedCompression,
\* the XOR-encrypted bit in either word (the other bit in neither) gives
\* UnsupportedEncryption, and an object is returned exactly when neither bit
\* is set in either word; a returned object has all its attributes.
C3_UnsupportedFlags ==
    /\ (Done /\ ValidButFlags) =>
          LET tt == \E w \in Words(input.p) : TTBit(w)
              xor == \E w \in Words(input.p) : XORBit(w)
          IN /\ (tt /\ ~xor) => UnsupportedCompression
             /\ (xor /\ ~tt) => UnsupportedEncryption
             /\ Returned <=> (~tt /\ ~xor)
    /\ Returned =>
          /\ DOMAIN self = Attributes
          /\ \A f \in {"flags", "eudc_flags"} : ~TTBit(self[f]) /\ ~XORBit(self[f])

\* the compressed bit in the EUDC flags only, other bits in the top-level word
C3_Witness ==
    /\ Done /\ ValidButFlags /\ UnsupportedCompression
    /\ input.p.layout = <<2, 2>>
    /\ input.p.flags = <<0, 161>> /\ input.p.eudc_flags = <<0, 4>>

\* C4: a version field other than 0x00010000, 0x00020001, 0x00020002 yields
\* UnknownVersion, and only such a field does; a sample of each of the three
\* versions, laid out with the sections of its version, decodes without error.
C4_KnownVersions ==
    /\ (Done /\ Len(_data) >= 12 /\ ~Known(U32At(_data, 8))) => UnknownVersion
    /\ UnknownVersion => (Len(_data) >= 12 /\ ~Known(U32At(_data, 8)))
    /\ (Done /\ input.cut = -1 /\ input.p \in Samples) =>
          (Returned /\ err = NoError /\ self["version"] = input.p.layout)

\* 0x00020000 lies between two known versions and is refused
C4_Witness ==
    /\ UnknownVersion /\ U32At(_data, 8) = <<2, 0>> /\ _offset = 12
    /\ U16At(_data, 34) = 20556

PaddingAt ==
    <<"padding1", "padding2", "padding3", "padding4", "padding5", "padding6">>

\* marker i belongs to version v
Applies(i, v) ==
    \/ i <= 4
    \/ i = 5 /\ IntGt(v, <<1, 0>>)
    \/ i = 6 /\ IntGt(v, <<2, 1>>)

FirstMarker(p) ==
    { i \in 1..6 : /\ p.padding[i] # 0 /\ Applies(i, p.version)
                   /\ \A j \in 1..(i - 1) : ~(p.padding[j] # 0 /\ Applies(j, p.version)) }

\* C5: when the decoder has accepted every field before marker i and the
\* marker is non-zero, the decode fails with BadPadding(i), and with a zero
\* marker it goes on; marker 5 is read only when version > 0x00010000 and
\* marker 6 only when version > 0x00020001; on a sample valid but for its
\* markers the index reported is that of the first non-zero marker of the
\* version.
C5_Padding ==
    /\ [](\A i \in 1..6 :
            /\ pc = PaddingAt[i] => Applies(i, U32At(_data, 8))
            /\ BadPadding(i) => Applies(i, U32At(_data, 8)))
    /\ []((Done /\ input.cut = -1 /\ input.p.padding # Zero6
             /\ [input.p EXCEPT !.padding = Zero6] \in Samples) =>
            /\ \A i \in FirstMarker(input.p) : BadPadding(i)
            /\ FirstMarker(input.p) = {} => Returned)
    /\ [][\A i \in 1..6 :
            (pc = PaddingAt[i] /\ Len(_data) - _offset >= 2) =>
               IF U16At(_data, _offset) # 0
               THEN BadPadding(i)'
               ELSE pc' # "raised" /\ err' = NoError /\ _offset' = _offset + 2]_vars

\* marker 6 is non-zero and so is the signature size that follows it
C5_Witness ==
    /\ BadPadding(6) /\ input.p.padding[6] = 1 /\ input.p.signature_size = 2
    /\ input.p.layout = <<2, 2>> /\ input.p.version = <<2, 2>>

\* the i-th reserved field of the buffer
Reserved(i) == U32At(_data, 60 + 4 * i)

ReservedReached ==
    Len(_data) >= 80 /\ Known(U32At(_data, 8)) /\ U16At(_data, 34) = 20556

\* C6: with the fields before them valid, a non-zero reserved field makes
\* the decode fail with NonZeroReserved(i), i the first non-zero one, and
\* only then; with all four zero the decode goes on to the first name field.
C6_Reserved ==
    /\ (Done /\ ReservedReached) =>
          /\ \A i \in 1..4 :
                (Reserved(i) # <<0, 0>> /\ \A j \in 1..(i - 1) : Reserved(j) = <<0, 0>>)
                   => NonZeroReserved(i)
          /\ (\A i \in 1..4 : Reserved(i) = <<0, 0>>) =>
                \/ _offset >= 82
                \/ TruncatedInput /\ _offset = 80 /\ Len(_data) < 82
    /\ \A i \in 1..4 :
          NonZeroReserved(i) => (ReservedReached /\ Reserved(i) # <<0, 0>>)

\* the second and the third reserved field are non-zero: the second is named
C6_Witness ==
    /\ NonZeroReserved(2) /\ Reserved(2) = <<0, 1>> /\ Reserved(3) = <<65535, 0>>
    /\ _offset = 72

\* a size of the buffer as a number
Size(v) == v[1] * 65536 + v[2]

RECURSIVE NameEnd(_, _)
\* the offset after the i-th padded, length-prefixed text field of buffer d
\* (the first one starts at 80)
NameEnd(d, i) ==
    IF i = 0 THEN 80
    ELSE NameEnd(d, i - 1) + 4 + U16At(d, NameEnd(d, i - 1) + 2)

\* the offset after the root string, if the version has one
SectionAEnd(d) ==
    IF IntGt(U32At(d, 8), <<1, 0>>) THEN NameEnd(d, 5) ELSE NameEnd(d, 4)

\* the offset after the EUDC font data, if the version has them: where the
\* font data start
SectionBEnd(d) ==
    IF IntGt(U32At(d, 8), <<2, 1>>)
    THEN SectionAEnd(d) + 20 + Size(U32At(d, SectionAEnd(d) + 16))
    ELSE SectionAEnd(d)

NotPresent == <<-1, 65535>>

\* C7: in a returned object, root_string is empty for version 0x00010000;
\* for 0x00010000 and 0x00020001 the checksum and the code page are -1, the
\* signature and the EUDC data empty, the EUDC flags 0, and no byte of the
\* section was consumed; for 0x00020002 the checksum and the code page are
\* the unsigned values of the stream, never -1.
C7_VersionGated ==
    Returned =>
      LET v == U32At(_data, 8)
          a == SectionAEnd(_data)
      IN /\ v = <<1, 0>> => self["root_string"] = <<>>
         /\ v \in {<<1, 0>>, <<2, 1>>} =>
               /\ self["root_string_checksum"] = NotPresent
               /\ self["eudc_code_page"] = NotPresent
               /\ self["signature"] = <<>>
               /\ self["eudc_flags"] = <<0, 0>>
               /\ self["eudc_font_data"] = <<>>
               /\ _offset = a + Size(U32At(_data, 4))
         /\ v = <<2, 2>> =>
               /\ self["root_string_checksum"] = U32At(_data, a)
               /\ self["eudc_code_page"] = U32At(_data, a + 4)
               /\ self["root_string_checksum"][1] >= 0
               /\ self["eudc_code_page"][1] >= 0
               /\ self["root_string_checksum"] # NotPresent
               /\ self["eudc_code_page"] # NotPresent

\* version 0x00020002 with a checksum of 0xFFFFFFFF in the stream
C7_Witness ==
    /\ Returned /\ U32At(_data, 8) = <<2, 2>>
    /\ self["root_string_checksum"] = <<65535, 65535>>
    /\ self["eudc_code_page"] = <<32768, 1252>>

\* the bytes of the root string in buffer d
RootStringBytes(d) ==
    Slice(d, NameEnd(d, 4) + 4, U16At(d, NameEnd(d, 4) + 2))

\* C8: in a returned object of a version > 0x00010000, root_string is the
\* root-string text split on U+0000: no entry holds U+0000, the entries
\* joined with U+0000 are the text, there is one entry more than the text
\* has U+0000 code points; "a\0b\0" gives ["a", "b", ""] and the empty text
\* gives [""].
C8_RootString ==
    (Returned /\ IntGt(U32At(_data, 8), <<1, 0>>)) =>
      LET raw == RootStringBytes(_data)
          rs == self["root_string"]
      IN /\ \A k \in 1..Len(rs) : \A m \in 1..Len(rs[k]) : rs[k][m] # 0
         /\ Utf16(Join(rs, 0)) = raw
         /\ Len(rs) = 1 + Cardinality({k \in 1..(Len(raw) \div 2) :
                                          raw[2 * k - 1] = 0 /\ raw[2 * k] = 0})
         /\ raw = <<97, 0, 0, 0, 98, 0, 0, 0>> => rs = << <<97>>, <<98>>, <<>> >>
         /\ raw = <<>> => rs = << <<>> >>

\* "a\0b\0" in a returned object
C8_Witness ==
    /\ Returned /\ IntGt(U32At(_data, 8), <<1, 0>>)
    /\ RootStringBytes(_data) = <<97, 0, 0, 0, 98, 0, 0, 0>>
    /\ self["root_string"] = << <<97>>, <<98>>, <<>> >>

\* C9: in a returned object, font_data is the FontDataSize bytes after the
\* last section of the version, the offset ends right after them, within
\* the buffer; eot_size is the first field as read; and a sample decodes
\* whatever its EOTSize field holds and whatever follows its font data.
C9_FontData ==
    /\ Returned =>
          LET k == SectionBEnd(_data)
              n == Size(U32At(_data, 4))
          IN /\ self["font_data"] = Slice(_data, k, n)
             /\ Len(self["font_data"]) = n
             /\ _offset = k + n
             /\ _offset <= Len(_data)
             /\ self["eot_size"] = U32At(_data, 0)
    /\ (Done /\ input.cut = -1
             /\ [input.p EXCEPT !.eot_size = <<0, 44636>>] \in Samples) => Returned
    /\ (Done /\ input.cut >= Consumed(input.p)) => Returned

\* version 0x00020002 with EUDC data, EOTSize 0, and a byte after the font data
C9_Witness ==
    /\ Returned /\ U32At(_data, 8) = <<2, 2>> /\ self["eot_size"] = <<0, 0>>
    /\ self["eudc_font_data"] = <<33>> /\ self["font_data"] = <<17>>
    /\ Len(_data) = _offset + 1

\* the bytes struct packs a value into
Packed(fmt, val) ==
    CASE fmt = "<L" -> LE32(val)
      [] fmt = "<H" -> LE16(val)
      [] fmt = "<s" -> val

\* C10: the offset stays within the buffer and never decreases, the buffer
\* never changes; a read of w bytes that fit returns the bytes at the offset
\* and moves the offset by w; a read of more bytes than remain fails with
\* struct.error and leaves the offset where it was.
C10_Cursor ==
    /\ [](0 <= _offset /\ _offset <= Len(_data))
    /\ [][/\ _offset' >= _offset
          /\ _data' = _data
          /\ last'.n = last.n => _offset' = _offset
          /\ last'.n # last.n =>
                LET w == last'.size
                IN /\ last'.n = last.n + 1
                   /\ last'.before = _offset
                   /\ IF w[1] = 0 /\ w[2] <= Len(_data) - _offset
                      THEN /\ last'.ok
                           /\ _offset' = _offset + w[2]
                           /\ Packed(last'.fmt, last'.val) = Slice(_data, _offset, w[2])
                      ELSE /\ ~last'.ok
                           /\ _offset' = _offset
                           /\ TruncatedInput']_vars

\* a 32-bit read with three bytes left
C10_Witness ==
    /\ last.fmt = "<L" /\ ~last.ok /\ Len(_data) - _offset = 3
    /\ last.before = _offset /\ TruncatedInput

=============================================================================
